---- MODULE Spec2Model ----
(***************************************************************************)
(* evioBench: main() of src/evioBench.cc as a state machine.               *)
(*                                                                         *)
(* The program reads EVIO records from the files named on the command      *)
(* line, classifies each record and folds it into running statistics.      *)
(* The EVIO library (evOpen, evIoctl, evRead, evClose) is the environment:  *)
(* its results are chosen nondeterministically.  Where several runs over    *)
(* the same files are compared, the files' content is fixed (disk).        *)
(*                                                                         *)
(* unsigned int values are 32 bits wide.  TLC's integers are narrower than *)
(* 2^32, so a 32-bit value is kept as its two 16-bit halves [hi, lo]; the  *)
(* 64-bit totlen is kept the same way with an unbounded hi.                *)
(***************************************************************************)
EXTENDS Integers, Sequences, FiniteSets, TLC

\* ------------------------------------------------------------------ bounds
MaxFiles == 2        \* most file arguments of one run
MaxRecs == 3         \* most records held by all files together
MaxReplayRecs == 2   \* most records on disk when a run is started again

\* --------------------------------------------------------- program constants
MAXEVLEN == 102400
MAX_PHYS_EVTYPE == 14
PRESTART_EVTYPE == 17
GO_EVTYPE == 18
END_EVTYPE == 20
PhysicsType == 1
Milestone == 25000

S_SUCCESS == "S_SUCCESS"
EOF == "EOF"
S_FAILURE == "S_FAILURE"

\* ------------------------------------------------- 32-bit unsigned arithmetic
Half == 2^16

W(h, l) == [hi |-> h, lo |-> l]

\* the value n (0 <= n < 2^31) as an unsigned int
Lit(n) == W(n \div Half, n % Half)

UINT_MAX == W(Half - 1, Half - 1)

ULess(a, b) == a.hi < b.hi \/ (a.hi = b.hi /\ a.lo < b.lo)

UMax(a, b) == IF ULess(a, b) THEN b ELSE a

UMin(a, b) == IF ULess(b, a) THEN b ELSE a

\* a + 1 in unsigned int: 2^32 - 1 wraps to 0
UInc(a) ==
    IF a.lo = Half - 1 THEN W((a.hi + 1) % Half, 0) ELSE W(a.hi, a.lo + 1)

\* a >> 16
Shr16(a) == a.hi

\* a % m, for 0 < m <= 2^15
UMod(a, m) == (((a.hi % m) * (Half % m)) + a.lo) % m

\* 4 * a in unsigned int (modulo 2^32)
UMul4(a) == W((4 * a.hi + (4 * a.lo) \div Half) % Half, (4 * a.lo) % Half)

\* uint64_t t += unsigned int a; t stays far below 2^64 within the bounds
Add64(t, a) == W(t.hi + a.hi + (t.lo + a.lo) \div Half, (t.lo + a.lo) % Half)

\* 4 * t in uint64_t
Mul4_64(t) == W(4 * t.hi + (4 * t.lo) \div Half, (4 * t.lo) % Half)

\* ------------------------------------------------------------- environment
AllNames == << "A", "B", "C", "D" >>

Names == { AllNames[i] : i \in 1..Len(AllNames) }

\* the handles of the library; evOpen hands out the lowest free one
HandleIds == {1, 2}

Versions == {1, 2, 3, 4}

\* A record: word 0, word 1 (the tag in its high half; the low half, which
\* the program does not look at, is 0x10cc), word 4.
Rec(w0, tag, w4) == [w0 |-> w0, w1 |-> W(tag, 4300), w4 |-> w4]

\* The records a file may hold: word 0, tag (word 1 >> 16), word 4.
Records ==
    { Rec(Lit(1), 16, Lit(0)),            \* v2 Sync, 2 words
      Rec(Lit(9), 0, Lit(1)),             \* v2 physics, 10 words, event 1
      Rec(Lit(19), 0, Lit(2)),            \* v2 physics, 20 words, event 2
      Rec(Lit(MAXEVLEN - 1), 14, UINT_MAX), \* longest record, last physics type
      Rec(Lit(9), 15, Lit(2)),            \* v2: first non-physics type
      Rec(Lit(1), 14, Lit(0)),            \* v2 physics too short to hold word 4
      Rec(Lit(1), 65360, Lit(0)),         \* 0xff50
      Rec(Lit(19), 65368, Lit(1)),        \* 0xff58
      Rec(Lit(9), 65392, Lit(Milestone)), \* 0xff70
      Rec(Lit(1), 65489, Lit(0)),         \* 0xffd1
      Rec(Lit(9), 65490, Lit(0)),         \* 0xffd2
      Rec(Lit(19), 65492, Lit(0)),        \* 0xffd4
      Rec(Lit(MAXEVLEN), 65491, Lit(0)),  \* MAXEVLEN + 1 words, tag 0xffd3
      Rec(UINT_MAX, 65491, Lit(0)),       \* word 0 = 2^32 - 1, tag 0xffd3
      Rec(UINT_MAX, 0, Lit(2)) }          \* word 0 = 2^32 - 1, physics tag

\* A file whose content the model leaves open: every read may give any
\* record, the end of the file or an error.
AnyFile == [known |-> FALSE, ver |-> 0, recs |-> << >>]

\* A file of version v holding the records rs.
File(v, rs) == [known |-> TRUE, ver |-> v, recs |-> rs]

SeqsUpTo(S, n) == UNION { [1..k -> S] : k \in 0..n }

\* The command lines: up to MaxFiles different files.
ArgLists == { SubSeq(AllNames, 1, n) : n \in 0..MaxFiles }

\* ------------------------------------------------------------------- state
VARIABLES
    args,          \* fnames: the file arguments
    pc,            \* position in main
    fi,            \* index in fnames of the file of the for loop
    handle, ret, version, evbuffer, evlen, evtype,
    nev, nphys, max_evlen, min_evlen, max_evlen_any, totlen,
    gEvNum, retcode,
    exc,           \* what() of the exception in flight
    out,           \* what the run wrote: usage, milestones, report, error
    exitStatus,    \* the exit status, -1 while running
    disk,          \* content of the files, where the model fixes it
    openHandles,   \* handles open in the EVIO library
    rpos,          \* records already read through the open handle
    lib,           \* calls into the library (counts and what was touched)
    runs           \* results of the earlier runs over the same disk

vars == << args, pc, fi, handle, ret, version, evbuffer, evlen, evtype,
           nev, nphys, max_evlen, min_evlen, max_evlen_any, totlen,
           gEvNum, retcode, exc, out, exitStatus,
           disk, openHandles, rpos, lib, runs >>

prog == << pc, fi, handle, ret, version, evbuffer, evlen, evtype,
           nev, nphys, max_evlen, min_evlen, max_evlen_any, totlen,
           gEvNum, retcode, exc, out, exitStatus, openHandles, rpos, lib >>

stats == << nev, nphys, max_evlen, min_evlen, max_evlen_any, totlen >>

NoOut == [usage |-> FALSE, milestones |-> 0, report |-> << >>, error |-> << >>]

NoLib == [opens |-> 0, opened |-> 0, ioctls |-> 0, reads |-> 0,
          closes |-> 0, badCloses |-> 0, touched |-> {}]

\* main, lines 47-71: the state before the timer starts
Begin ==
    /\ pc = "start"
    /\ fi = 1
    /\ handle = 0
    /\ ret = S_SUCCESS
    /\ version = 0
    /\ evbuffer = Rec(Lit(0), 0, Lit(0))
    /\ evlen = Lit(0)
    /\ evtype = 0
    /\ nev = 0
    /\ nphys = 0
    /\ max_evlen = Lit(0)
    /\ min_evlen = UINT_MAX
    /\ max_evlen_any = Lit(0)
    /\ totlen = Lit(0)
    /\ gEvNum = Lit(0)
    /\ retcode = 0
    /\ exc = ""
    /\ out = NoOut
    /\ exitStatus = -1
    /\ openHandles = {}
    /\ rpos = 0
    /\ lib = NoLib

Init ==
    /\ args \in ArgLists
    /\ disk = [f \in Names |-> AnyFile]
    /\ runs = << >>
    /\ Begin

\* throw runtime_error(msg)
Throw(msg) == pc' = "catch" /\ exc' = msg

\* evClose(h)
EvClose(h) ==
    /\ openHandles' = openHandles \ {h}
    /\ lib' = [lib EXCEPT !.closes = @ + 1,
                          !.badCloses = IF h \in openHandles THEN @ ELSE @ + 1]

\* lines 49-77: usage() without a file argument, else on to the first file
Start ==
    /\ pc = "start"
    /\ IF Len(args) = 0
       THEN /\ out' = [out EXCEPT !.usage = TRUE]
            /\ exitStatus' = 1
            /\ pc' = "exit"
       ELSE /\ pc' = "open"
            /\ UNCHANGED << out, exitStatus >>
    /\ UNCHANGED << args, fi, handle, ret, version, evbuffer, evlen, evtype,
                    stats, gEvNum, retcode, exc, disk, openHandles, rpos,
                    lib, runs >>

\* the file of the current iteration of the for loop
CurFile == disk[args[fi]]

\* lines 79-84: evOpen and the two checks after it
OpenCall ==
    /\ pc = "open"
    /\ fi <= Len(args)
    /\ \/ \* evOpen fails; the library may have cleared the handle
          /\ ret' = S_FAILURE
          /\ handle' \in {handle, 0}
          /\ Throw("evPerror")
          /\ lib' = [lib EXCEPT !.opens = @ + 1]
          /\ UNCHANGED << openHandles, rpos >>
       \/ \* evOpen succeeds but hands back no handle
          /\ ret' = S_SUCCESS
          /\ handle' = 0
          /\ Throw("Bad file handle")
          /\ lib' = [lib EXCEPT !.opens = @ + 1]
          /\ UNCHANGED << openHandles, rpos >>
       \/ \E h \in HandleIds \ openHandles :
             /\ \A g \in HandleIds \ openHandles : h <= g
             /\ ret' = S_SUCCESS
             /\ handle' = h
             /\ openHandles' = openHandles \cup {h}
             /\ rpos' = 0
             /\ lib' = [lib EXCEPT !.opens = @ + 1, !.opened = @ + 1,
                                   !.ioctls = 0]
             /\ pc' = "ioctl"
             /\ exc' = exc

\* OpenFile with the accumulators of lines 62-67 set up once per file
OpenFileResets ==
    /\ OpenCall
    /\ nev' = 0
    /\ nphys' = 0
    /\ max_evlen' = Lit(0)
    /\ min_evlen' = UINT_MAX
    /\ max_evlen_any' = Lit(0)
    /\ totlen' = Lit(0)
    /\ UNCHANGED << args, fi, version, evbuffer, evlen, evtype, gEvNum,
                    retcode, out, exitStatus, disk, runs >>

\* lines 77-84: the next file of the for loop is opened
OpenFile ==
    /\ OpenCall
    /\ UNCHANGED << args, fi, version, evbuffer, evlen, evtype, stats, gEvNum,
                    retcode, out, exitStatus, disk, runs >>

\* VersionSupported without the upper limit
VersionAtLeast2(v) == v >= 2

\* line 92
VersionSupported(v) == v = 2 \/ v = 3

\* lines 87-93: evIoctl "v" and the version check
QueryVersion ==
    /\ pc = "ioctl"
    /\ lib' = [lib EXCEPT !.ioctls = @ + 1]
    /\ \/ /\ ret' = S_FAILURE
          /\ version' = 0
          /\ Throw("evPerror")
       \/ \E v \in Versions :
             /\ CurFile.known => v = CurFile.ver
             /\ ret' = S_SUCCESS
             /\ version' = v
             /\ IF VersionSupported(v)
                THEN pc' = "read" /\ exc' = exc
                ELSE Throw("This EVIO version is not supported")
    /\ UNCHANGED << args, fi, handle, evbuffer, evlen, evtype, stats, gEvNum,
                    retcode, out, exitStatus, disk, openHandles, rpos, runs >>

\* evRead copies the words of record r into the buffer; a word the record
\* does not have keeps what an earlier record left there
CopyRecord(buf, r) ==
    [w0 |-> r.w0,
     w1 |-> IF ULess(r.w0, Lit(1)) THEN buf.w1 ELSE r.w1,
     w4 |-> IF ULess(r.w0, Lit(4)) THEN buf.w4 ELSE r.w4]

\* lines 97-100: evRead returned record r
TakeRecord(r) ==
    /\ ret' = S_SUCCESS
    /\ evbuffer' = CopyRecord(evbuffer, r)
    /\ rpos' = rpos + 1
    /\ nev' = nev + 1
    /\ evlen' = Lit(0)
    /\ evtype' = 0
    /\ lib' = [lib EXCEPT !.reads = @ + 1, !.touched = {}]
    /\ pc' = "length"

\* the records evRead may give next
Offered ==
    IF CurFile.known
    THEN IF rpos < Len(CurFile.recs) THEN {CurFile.recs[rpos + 1]} ELSE {}
    ELSE IF nev < MaxRecs THEN Records ELSE {}

\* whether evRead may give the end of the file
AtEnd == CurFile.known => rpos = Len(CurFile.recs)

\* NoRecord with the ++nev of line 100 placed before the break of line 99
NoRecordCounted(status) ==
    /\ ret' = status
    /\ lib' = [lib EXCEPT !.reads = @ + 1]
    /\ pc' = "eof"
    /\ nev' = nev + 1
    /\ UNCHANGED << evbuffer, rpos, evlen, evtype >>

\* lines 97-99: evRead returned no record but status; the loop is left
NoRecord(status) ==
    /\ ret' = status
    /\ lib' = [lib EXCEPT !.reads = @ + 1]
    /\ pc' = "eof"
    /\ UNCHANGED << evbuffer, rpos, nev, evlen, evtype >>

\* lines 96-100: evRead and the loop exit
ReadRecord ==
    /\ pc = "read"
    /\ \/ \E r \in Offered : TakeRecord(r)
       \/ AtEnd /\ NoRecord(EOF)
       \/ NoRecord(S_FAILURE)
    /\ UNCHANGED << args, fi, handle, version, nphys, max_evlen, min_evlen,
                    max_evlen_any, totlen, gEvNum, retcode, exc, out,
                    exitStatus, disk, openHandles, runs >>

\* line 102
EvLen(buf) == UInc(buf.w0)

\* line 103
TooLong(len) == ULess(Lit(MAXEVLEN), len)

\* lines 102-106: the length, its check, and the all-record statistics
CheckLength ==
    /\ pc = "length"
    /\ evlen' = EvLen(evbuffer)
    /\ lib' = [lib EXCEPT !.touched = @ \cup {0}]
    /\ IF TooLong(evlen')
       THEN /\ Throw("Buffer overflow (evlen > MAXEVLEN)?")
            /\ UNCHANGED << max_evlen_any, totlen >>
       ELSE /\ max_evlen_any' = UMax(max_evlen_any, evlen')
            /\ totlen' = Add64(totlen, evlen')
            /\ pc' = "classify"
            /\ exc' = exc
    /\ UNCHANGED << args, fi, handle, ret, version, evbuffer, evtype, nev,
                    nphys, max_evlen, min_evlen, gEvNum, retcode, out,
                    exitStatus, disk, openHandles, rpos, runs >>

\* V3Type without the case of the sync-bit physics tag 0xff58
V3TypeNoSync(bank_tag) ==
    CASE bank_tag = 65489 -> PRESTART_EVTYPE
      [] bank_tag = 65490 -> GO_EVTYPE
      [] bank_tag = 65492 -> END_EVTYPE
      [] bank_tag \in {65360, 65392} -> PhysicsType
      [] OTHER -> -1

\* lines 115-133: the switch over bank_tag; -1 is the default branch
V3Type(bank_tag) ==
    CASE bank_tag = 65489 -> PRESTART_EVTYPE
      [] bank_tag = 65490 -> GO_EVTYPE
      [] bank_tag = 65492 -> END_EVTYPE
      [] bank_tag \in {65360, 65368, 65392} -> PhysicsType
      [] OTHER -> -1

\* lines 108-134: the event type
Classify ==
    /\ pc = "classify"
    /\ lib' = [lib EXCEPT !.touched = @ \cup {1}]
    /\ IF version = 2
       THEN /\ evtype' = Shr16(evbuffer.w1)
            /\ pc' = "account"
            /\ exc' = exc
       ELSE LET bank_tag == Shr16(evbuffer.w1)
            IN  IF V3Type(bank_tag) = -1
                THEN /\ Throw("Undefined CODA 3 event type")
                     /\ evtype' = evtype
                ELSE /\ evtype' = V3Type(bank_tag)
                     /\ pc' = "account"
                     /\ exc' = exc
    /\ UNCHANGED << args, fi, handle, ret, version, evbuffer, evlen, stats,
                    gEvNum, retcode, out, exitStatus, disk, openHandles,
                    rpos, runs >>

\* IsPhysics with < for <=
IsPhysicsStrict(type) == type < MAX_PHYS_EVTYPE

\* line 135
IsPhysics(type) == type <= MAX_PHYS_EVTYPE

\* lines 140-145: the event number of a physics record
EvNum(ver, buf, last) == IF ver = 2 THEN buf.w4 ELSE UInc(last)

\* lines 135-148: the physics statistics and the event number
Account ==
    /\ pc = "account"
    /\ IF IsPhysics(evtype)
       THEN LET evnum == EvNum(version, evbuffer, gEvNum)
            IN  /\ nphys' = nphys + 1
                /\ max_evlen' = UMax(max_evlen, evlen)
                /\ min_evlen' = UMin(min_evlen, evlen)
                /\ gEvNum' = evnum
                /\ lib' = IF version = 2
                          THEN [lib EXCEPT !.touched = @ \cup {4}]
                          ELSE lib
                /\ out' = IF UMod(evnum, Milestone) = 0
                          THEN [out EXCEPT !.milestones = @ + 1]
                          ELSE out
       ELSE UNCHANGED << nphys, max_evlen, min_evlen, gEvNum, lib, out >>
    /\ pc' = "read"
    /\ UNCHANGED << args, fi, handle, ret, version, evbuffer, evlen, evtype,
                    nev, max_evlen_any, totlen, retcode, exc, exitStatus,
                    disk, openHandles, rpos, runs >>

\* EndOfFile without the check of line 150: every loop exit counts as the end
\* of the file
EndOfFileUnchecked ==
    /\ pc = "eof"
    /\ EvClose(handle)
    /\ fi' = fi + 1
    /\ pc' = "open"
    /\ UNCHANGED << args, handle, ret, version, evbuffer, evlen, evtype,
                    stats, gEvNum, retcode, exc, out, exitStatus, disk, rpos,
                    runs >>

\* EndOfFile without the evClose of line 153
EndOfFileNoClose ==
    /\ pc = "eof"
    /\ IF ret # EOF
       THEN /\ Throw("evPerror")
            /\ UNCHANGED << fi >>
       ELSE /\ fi' = fi + 1
            /\ pc' = "open"
            /\ exc' = exc
    /\ UNCHANGED << args, handle, ret, version, evbuffer, evlen, evtype,
                    stats, gEvNum, retcode, out, exitStatus, disk, rpos,
                    openHandles, lib, runs >>

\* lines 150-154: after the read loop
EndOfFile ==
    /\ pc = "eof"
    /\ IF ret # EOF
       THEN /\ Throw("evPerror")
            /\ UNCHANGED << fi, openHandles, lib >>
       ELSE /\ EvClose(handle)
            /\ fi' = fi + 1
            /\ pc' = "open"
            /\ exc' = exc
    /\ UNCHANGED << args, handle, ret, version, evbuffer, evlen, evtype,
                    stats, gEvNum, retcode, out, exitStatus, disk, rpos,
                    runs >>

\* a / b in double, b converted from unsigned int: a zero divisor gives NaN
\* (0/0) or an infinity, never a trap
FDiv(a, b) ==
    IF b = 0 THEN (IF a = Lit(0) THEN "nan" ELSE "inf") ELSE << a, b >>

\* lines 161-176: the values written by the statistics report
ReportOf(files, n, np, tot, mn, mx, mxany) ==
    [files |-> files, events |-> n, physics |-> np,
     bytes |-> Mul4_64(tot),
     min_physics |-> UMul4(mn), max_physics |-> UMul4(mx),
     max_any |-> UMul4(mxany),
     average |-> FDiv(Mul4_64(tot), n),
     per_event |-> IF n = 0 THEN "inf" ELSE "finite"]

\* lines 156-176: all files done, the report
Report ==
    /\ pc = "open"
    /\ fi > Len(args)
    /\ out' = [out EXCEPT !.report =
                 << ReportOf(Len(args), nev, nphys, totlen, min_evlen,
                             max_evlen, max_evlen_any) >>]
    /\ pc' = "return"
    /\ UNCHANGED << args, fi, handle, ret, version, evbuffer, evlen, evtype,
                    stats, gEvNum, retcode, exc, exitStatus, disk,
                    openHandles, rpos, lib, runs >>

\* Catch without the evClose of line 181
CatchNoClose ==
    /\ pc = "catch"
    /\ out' = [out EXCEPT !.error = << [event |-> gEvNum, what |-> exc] >>]
    /\ retcode' = 2
    /\ pc' = "return"
    /\ UNCHANGED << args, fi, handle, ret, version, evbuffer, evlen, evtype,
                    stats, gEvNum, exc, exitStatus, disk, openHandles, rpos,
                    lib, runs >>

\* Catch without the retcode = 2 of line 180
CatchKeepsStatus ==
    /\ pc = "catch"
    /\ out' = [out EXCEPT !.error = << [event |-> gEvNum, what |-> exc] >>]
    /\ EvClose(handle)
    /\ pc' = "return"
    /\ UNCHANGED << args, fi, handle, ret, version, evbuffer, evlen, evtype,
                    stats, gEvNum, retcode, exc, exitStatus, disk, rpos, runs >>

\* lines 178-182: the handler
Catch ==
    /\ pc = "catch"
    /\ out' = [out EXCEPT !.error = << [event |-> gEvNum, what |-> exc] >>]
    /\ retcode' = 2
    /\ EvClose(handle)
    /\ pc' = "return"
    /\ UNCHANGED << args, fi, handle, ret, version, evbuffer, evlen, evtype,
                    stats, gEvNum, exc, exitStatus, disk, rpos, runs >>

\* line 184
Return ==
    /\ pc = "return"
    /\ exitStatus' = retcode
    /\ pc' = "exit"
    /\ UNCHANGED << args, fi, handle, ret, version, evbuffer, evlen, evtype,
                    stats, gEvNum, retcode, exc, out, disk, openHandles,
                    rpos, lib, runs >>

Next ==
    \/ Start
    \/ OpenFile
    \/ QueryVersion
    \/ ReadRecord
    \/ CheckLength
    \/ Classify
    \/ Account
    \/ EndOfFile
    \/ Report
    \/ Catch
    \/ Return

Spec == Init /\ [][Next]_vars

\* main is one sequential thread: whenever a statement can run, it runs.
SpecLive == Spec /\ WF_vars(Next)

\* ------------------------------------------------ several runs over one disk
\* The command lines of the four runs that are compared.
Plan == << << "A" >>, << "B" >>, << "A", "B" >>, << "B", "A" >> >>

ResultOf ==
    [args |-> args, nev |-> nev, nphys |-> nphys, totlen |-> totlen,
     min_evlen |-> min_evlen, max_evlen |-> max_evlen,
     max_evlen_any |-> max_evlen_any, gEvNum |-> gEvNum, out |-> out]

\* The version-2 stream of three records: Sync, two physics records.
ExampleStream ==
    File(2, << Rec(Lit(1), 16, Lit(0)), Rec(Lit(9), 0, Lit(1)),
               Rec(Lit(19), 0, Lit(2)) >>)

InitOrder ==
    /\ args = Plan[1]
    /\ \E a, b \in { File(v, rs) : v \in {2, 3},
                                   rs \in SeqsUpTo(Records, MaxReplayRecs) }
                    \cup {ExampleStream} :
          /\ \/ Len(a.recs) + Len(b.recs) <= MaxReplayRecs
             \/ a = ExampleStream /\ b = File(2, << >>)
          /\ disk = [f \in Names |-> CASE f = "A" -> a
                                      [] f = "B" -> b
                                      [] OTHER -> AnyFile]
    /\ runs = << >>
    /\ Begin

\* main, lines 47-71, entered again: the next command line of the plan, after
\* a run that ended with status 0
Relaunch ==
    /\ pc = "exit"
    /\ exitStatus = 0
    /\ Len(runs) < Len(Plan)
    /\ runs' = Append(runs, ResultOf)
    /\ IF Len(runs') < Len(Plan)
       THEN /\ args' = Plan[Len(runs') + 1]
            /\ pc' = "start"
            /\ fi' = 1
            /\ handle' = 0
            /\ ret' = S_SUCCESS
            /\ version' = 0
            /\ evbuffer' = Rec(Lit(0), 0, Lit(0))
            /\ evlen' = Lit(0)
            /\ evtype' = 0
            /\ nev' = 0
            /\ nphys' = 0
            /\ max_evlen' = Lit(0)
            /\ min_evlen' = UINT_MAX
            /\ max_evlen_any' = Lit(0)
            /\ totlen' = Lit(0)
            /\ gEvNum' = Lit(0)
            /\ retcode' = 0
            /\ exc' = ""
            /\ out' = NoOut
            /\ exitStatus' = -1
            /\ openHandles' = {}
            /\ rpos' = 0
            /\ lib' = NoLib
       ELSE UNCHANGED << args, prog >>
    /\ disk' = disk

NextOrder == Next \/ Relaunch

SpecOrder == InitOrder /\ [][NextOrder]_vars


\* ==================================================================== claims
\* The tag of the record in the buffer, and its length word 0 + 1 as a
\* number (not reduced modulo 2^32).
Tag == evbuffer.w1.hi

MathLen(w0) == IF w0.lo = Half - 1 THEN W(w0.hi + 1, 0) ELSE W(w0.hi, w0.lo + 1)

WithinCapacity == ULess(evbuffer.w0, Lit(MAXEVLEN))

PhysicsTags3 == {65360, 65368, 65392}     \* 0xff50, 0xff58, 0xff70

\* Whether the record in the buffer is a physics record, by the spec's rule.
PhysicsRecord ==
    IF version = 2 THEN Tag <= 14 ELSE Tag \in PhysicsTags3

\* C1: a record whose word 0 + 1 exceeds MAXEVLEN makes the run fail with the
\* buffer-overflow error, in the step that decodes the length and before
\* word 1 or word 4 of the record is read.
C1_OverflowBeforeFields ==
    [][ (pc = "length" /\ ~WithinCapacity) =>
          /\ pc' = "catch"
          /\ exc' = "Buffer overflow (evlen > MAXEVLEN)?"
          /\ lib'.touched = {0} ]_vars

\* C2: in a version-3 source a record within capacity is classified by its
\* tag: 0xff50, 0xff58, 0xff70 give type 1 and count as physics; 0xffd1,
\* 0xffd2, 0xffd4 give 17, 18, 20 and do not count as physics; any other tag
\* ends the run with the unrecognized-tag error.
C2_V3Classification ==
    /\ [][ (pc = "classify" /\ version = 3 /\ WithinCapacity) =>
             /\ Tag \in PhysicsTags3 => (pc' = "account" /\ evtype' = 1)
             /\ Tag = 65489 => (pc' = "account" /\ evtype' = 17)
             /\ Tag = 65490 => (pc' = "account" /\ evtype' = 18)
             /\ Tag = 65492 => (pc' = "account" /\ evtype' = 20)
             /\ Tag \notin PhysicsTags3 \cup {65489, 65490, 65492} =>
                  (pc' = "catch" /\ exc' = "Undefined CODA 3 event type") ]_vars
    /\ [][ (pc = "account" /\ version = 3 /\ WithinCapacity) =>
             /\ pc' = "read"
             /\ nphys' = IF Tag \in PhysicsTags3 THEN nphys + 1 ELSE nphys ]_vars

C2_Witness ==
    /\ pc = "read"
    /\ version = 3
    /\ Tag = 65368
    /\ evtype = 1
    /\ lib.touched = {0, 1}
    /\ nphys = 2
    /\ nev = 3

\* C3 as stated: a version-2 record within capacity with tag > 14 changes,
\* of the length and sequence statistics, the all-record maximum only.
C3_OnlyMaxAnyChanges ==
    [][ (pc \in {"length", "classify", "account"} /\ version = 2
           /\ WithinCapacity /\ Tag > 14) =>
          UNCHANGED << totlen, nphys, min_evlen, max_evlen, gEvNum >> ]_vars

\* C3 (amended): in a version-2 source a record within capacity has its tag
\* as type; with tag <= 14 it counts as physics; with tag > 14 it changes
\* only the all-record maximum and the cumulative length (its length is
\* added), and leaves the physics count, the physics minimum and maximum and
\* the last sequence number as they were.
C3_V2Classification ==
    /\ [][ (pc = "length" /\ version = 2 /\ WithinCapacity /\ Tag > 14) =>
             /\ pc' = "classify"
             /\ totlen' = Add64(totlen, MathLen(evbuffer.w0))
             /\ max_evlen_any' = UMax(max_evlen_any, MathLen(evbuffer.w0))
             /\ UNCHANGED << nev, nphys, min_evlen, max_evlen, gEvNum >> ]_vars
    /\ [][ (pc = "classify" /\ version = 2 /\ WithinCapacity) =>
             /\ pc' = "account"
             /\ evtype' = Tag
             /\ UNCHANGED << stats, gEvNum >> ]_vars
    /\ [][ (pc = "account" /\ version = 2 /\ WithinCapacity) =>
             /\ pc' = "read"
             /\ evtype = Tag
             /\ IF Tag <= 14
                THEN nphys' = nphys + 1
                ELSE UNCHANGED << stats, gEvNum >> ]_vars

C3_Witness ==
    /\ pc = "read"
    /\ version = 2
    /\ Tag = 15
    /\ evtype = 15
    /\ lib.touched = {0, 1}
    /\ nphys = 1
    /\ nev = 2
    /\ gEvNum = UINT_MAX

\* C4: the last sequence number starts at 0; a v2 physics record sets it to
\* word 4 of the buffer, a v3 physics record to its previous value plus 1,
\* and no other step (a non-physics record, the end of a source, opening the
\* next one) changes it.
C4_SequenceNumber ==
    /\ (pc = "start" => gEvNum = Lit(0))
    /\ [][ IF pc = "account" /\ PhysicsRecord
           THEN IF version = 2
                THEN gEvNum' = evbuffer.w4
                ELSE gEvNum' = MathLen(gEvNum)
           ELSE gEvNum' = gEvNum ]_vars

\* The places of main inside the read loop of one source.
InLoop == pc \in {"read", "length", "classify", "account", "eof"}

\* The run has failed: an exception is in flight or was handled.
Failed == pc = "catch" \/ retcode = 2

\* C5: every error (open, version query, read, buffer overflow, unrecognized
\* tag) takes the run to the handler; the failing step leaves the last
\* sequence number alone; the handler reports that number and sets status 2;
\* after the error nothing is read or opened and no report is written.
C5_ErrorAborts ==
    /\ [][ /\ (pc = "open" /\ pc' # "return" /\ (ret' # S_SUCCESS \/ handle' = 0))
                => pc' = "catch"
           /\ (pc = "ioctl" /\ (ret' # S_SUCCESS \/ version' \notin {2, 3}))
                => pc' = "catch"
           /\ (pc = "read" /\ ret' \notin {S_SUCCESS, EOF})
                => (pc' = "eof" /\ UNCHANGED << stats, gEvNum >>)
           /\ (pc = "eof" /\ ret # EOF) => pc' = "catch"
           /\ (pc # "catch" /\ pc' = "catch") => gEvNum' = gEvNum ]_vars
    /\ [][ pc = "catch" =>
             /\ out'.error = << [event |-> gEvNum, what |-> exc] >>
             /\ retcode' = 2
             /\ pc' = "return" ]_vars
    /\ [][ (Failed \/ (pc = "eof" /\ ret # EOF)) =>
             /\ lib'.reads = lib.reads
             /\ lib'.opens = lib.opens
             /\ out'.report = << >>
             /\ UNCHANGED << stats, gEvNum >>
             /\ pc' \in {"catch", "return", "exit"}
             /\ pc' = "exit" => exitStatus' = 2 ]_vars

C5_Witness ==
    /\ pc = "exit"
    /\ exitStatus = 2
    /\ exc = "evPerror"
    /\ ret = S_FAILURE
    /\ fi = 1
    /\ Len(args) = 2
    /\ nphys = 1
    /\ out.error = << [event |-> Lit(2), what |-> "evPerror"] >>
    /\ out.report = << >>

\* C6: when every source was empty (total record count 0) the report gives
\* "not computable" for the average event size and the time per event; no
\* division by the record count is evaluated with a zero divisor.
C6_DivisionGuarded ==
    (out.report # << >> /\ nev = 0) =>
        /\ out.report[1].average = "not computable"
        /\ out.report[1].per_event = "not computable"

\* C7: at process exit no source is open: every source that was opened has
\* been closed, on the normal path and on every error path.
C7_AllClosedAtExit ==
    pc = "exit" =>
        /\ openHandles = {}
        /\ lib.closes - lib.badCloses = lib.opened

C7_Witness ==
    /\ pc = "exit"
    /\ exitStatus = 2
    /\ lib.opened = 2
    /\ exc = "Undefined CODA 3 event type"
    /\ openHandles = {}

\* C8: the version of a source is queried once, after the open and before
\* the first read; a version other than 2 or 3 ends the run with the
\* unsupported-version error before any record of the source is read; the
\* version stays the same for all records of the source.
C8_VersionOncePerSource ==
    /\ [](InLoop => (version \in {2, 3} /\ lib.ioctls = 1))
    /\ [][ (pc = "open" /\ pc' = "ioctl") => lib'.ioctls = 0 ]_vars
    /\ [][ pc = "ioctl" =>
             /\ lib'.ioctls = lib.ioctls + 1
             /\ lib'.reads = lib.reads
             /\ (ret' = S_SUCCESS /\ version' \notin {2, 3}) =>
                  /\ pc' = "catch"
                  /\ exc' = "This EVIO version is not supported" ]_vars
    /\ [][ (InLoop /\ pc' \in {"read", "length", "classify", "account", "eof"})
             => (version' = version /\ lib'.ioctls = lib.ioctls) ]_vars
    /\ [][ exc = "This EVIO version is not supported" =>
             (lib'.reads = lib.reads /\ lib'.opens = lib.opens) ]_vars

C8_Witness ==
    /\ pc = "exit"
    /\ exc = "This EVIO version is not supported"
    /\ version = 4
    /\ lib.opened = 2
    /\ lib.ioctls = 1
    /\ nev = 2
    /\ lib.reads = 3

\* The sum of two numbers kept as halves.
Plus(a, b) == W(a.hi + b.hi + (a.lo + b.lo) \div Half, (a.lo + b.lo) % Half)

\* C9: with A and B each processed without error, the run over [A, B] ends
\* with record count, physics count and cumulative length equal to the sums
\* of the runs over [A] and over [B]; the run over [B, A] ends with the same
\* totals and the same minimum and maxima as [A, B]; and no step between two
\* sources changes an accumulator.
C9_SourcesAddUp ==
    /\ [](Len(runs) = 4 =>
            LET a == runs[1]
                b == runs[2]
                ab == runs[3]
                ba == runs[4]
            IN  /\ ab.nev = a.nev + b.nev
                /\ ab.nphys = a.nphys + b.nphys
                /\ ab.totlen = Plus(a.totlen, b.totlen)
                /\ ba.nev = ab.nev
                /\ ba.nphys = ab.nphys
                /\ ba.totlen = ab.totlen
                /\ ba.min_evlen = ab.min_evlen
                /\ ba.max_evlen = ab.max_evlen
                /\ ba.max_evlen_any = ab.max_evlen_any)
    /\ [][ (pc \in {"eof", "open", "ioctl"} /\ pc' # "start") =>
             UNCHANGED stats ]_vars

C9_Witness ==
    /\ Len(runs) = 4
    /\ runs[1].nphys = 1
    /\ runs[2].nphys = 1
    /\ runs[3].nev = 2
    /\ runs[1].totlen # runs[2].totlen
    /\ runs[3].gEvNum # runs[4].gEvNum

\* The records of the files of a command line, in the order read, each with
\* the version of its file.
RECURSIVE RunRecs(_)
RunRecs(a) ==
    IF a = << >> THEN << >>
    ELSE [i \in 1..Len(disk[Head(a)].recs) |->
            [rec |-> disk[Head(a)].recs[i], ver |-> disk[Head(a)].ver]]
         \o RunRecs(Tail(a))

RefPhysics(x) ==
    IF x.ver = 2 THEN x.rec.w1.hi <= 14 ELSE x.rec.w1.hi \in PhysicsTags3

RECURSIVE RefSum(_)
RefSum(rs) ==
    IF rs = << >> THEN W(0, 0)
    ELSE Plus(MathLen(Head(rs).rec.w0), RefSum(Tail(rs)))

RefLens(rs) == { MathLen(rs[i].rec.w0) : i \in 1..Len(rs) }

RefMax(rs) == CHOOSE m \in RefLens(rs) : \A l \in RefLens(rs) : ~ULess(m, l)

RefMin(rs) == CHOOSE m \in RefLens(rs) : \A l \in RefLens(rs) : ~ULess(l, m)

\* C10: at normal completion the statistics are the fold of the records
\* read: count, sum of word 0 + 1, maximum length, number of physics
\* records, minimum and maximum length of the physics records.
C10_ReferenceFold ==
    (pc = "exit" /\ exitStatus = 0) =>
        LET rs == RunRecs(args)
            ph == SelectSeq(rs, RefPhysics)
        IN  /\ nev = Len(rs)
            /\ totlen = RefSum(rs)
            /\ rs # << >> => max_evlen_any = RefMax(rs)
            /\ nphys = Len(ph)
            /\ ph # << >> => (min_evlen = RefMin(ph) /\ max_evlen = RefMax(ph))

\* C10, the stream of the example: total 3, physics 2, minimum 10, maximum
\* 20, 32 words, last sequence number 2.
C10_Example ==
    (pc = "exit" /\ exitStatus = 0 /\ args = << "A" >>
       /\ disk["A"] = ExampleStream) =>
        /\ nev = 3
        /\ nphys = 2
        /\ min_evlen = Lit(10)
        /\ max_evlen = Lit(20)
        /\ totlen = Lit(32)
        /\ gEvNum = Lit(2)

C10_ExampleRun ==
    /\ pc = "exit"
    /\ exitStatus = 0
    /\ args = << "A" >>
    /\ disk["A"] = ExampleStream

\* C11: the sources are taken in the order given, one at a time: a source
\* is opened only when every earlier one was read to its end and closed; at
\* most one source is open; a read is issued only on the open source, after
\* its version was accepted and while no read of it has signalled the end or
\* an error; each source goes from opened to streaming to exhausted or
\* failed; the report is written only after the last source was closed.
C11_SourcesInOrder ==
    /\ [](Cardinality(openHandles) <= 1)
    /\ [][ lib'.opens # lib.opens =>
             /\ pc = "open"
             /\ openHandles = {}
             /\ lib.opens = fi - 1
             /\ lib.opened = fi - 1
             /\ lib.closes - lib.badCloses = fi - 1
             /\ fi > 1 => ret = EOF ]_vars
    /\ [][ lib'.reads # lib.reads =>
             /\ pc = "read"
             /\ openHandles = {handle}
             /\ version \in {2, 3}
             /\ lib.ioctls = 1
             /\ ret = S_SUCCESS ]_vars
    /\ [][ /\ pc = "ioctl" => pc' \in {"read", "catch"}
           /\ pc = "read" => pc' \in {"length", "eof"}
           /\ pc = "length" => pc' \in {"classify", "catch"}
           /\ pc = "classify" => pc' \in {"account", "catch"}
           /\ pc = "account" => pc' = "read"
           /\ pc = "eof" => pc' \in {"open", "catch"}
           /\ (pc = "eof" /\ pc' = "open") =>
                 (ret = EOF /\ openHandles' = {} /\ fi' = fi + 1)
           /\ (InLoop /\ pc' # "open") =>
                 (fi' = fi /\ handle' = handle /\ openHandles' = openHandles) ]_vars
    /\ [][ out'.report # out.report =>
             /\ openHandles = {}
             /\ fi = Len(args) + 1
             /\ lib.opened = Len(args)
             /\ lib.closes = Len(args)
             /\ ret = EOF ]_vars

C11_Witness ==
    /\ pc = "return"
    /\ out.report # << >>
    /\ Len(args) = 2
    /\ lib.opened = 2
    /\ lib.closes = 2
    /\ nev = 3
    /\ rpos = 1

\* The three ways a run can end.
UsageOutcome ==
    /\ out.usage
    /\ exitStatus = 1
    /\ lib.opens = 0
    /\ out.report = << >>
    /\ out.error = << >>

ReportOutcome ==
    /\ ~out.usage
    /\ exitStatus = 0
    /\ out.report # << >>
    /\ out.error = << >>
    /\ fi = Len(args) + 1
    /\ lib.opened = Len(args)
    /\ exc = ""
    /\ ret = EOF

ErrorOutcome ==
    /\ ~out.usage
    /\ exitStatus = 2
    /\ out.error # << >>
    /\ out.report = << >>

\* C12: every run ends, in exactly one outcome: without file arguments the
\* usage message and exit status 1, no source ever opened; with file
\* arguments either the report and exit status 0, only if every source was
\* read to its end without an error, or the error message and exit status 2;
\* a report never comes with an error message or a non-zero status.
C12_OneOutcome ==
    /\ <>(pc = "exit")
    /\ [](pc = "exit" =>
            IF Len(args) = 0
            THEN UsageOutcome
            ELSE /\ ReportOutcome \/ ErrorOutcome
                 /\ ~(ReportOutcome /\ ErrorOutcome))
    /\ [](out.report # << >> => (out.error = << >> /\ retcode = 0))
    /\ [](out.usage => Len(args) = 0)

C12_Witness ==
    /\ pc = "exit"
    /\ ErrorOutcome
    /\ Len(args) = 2
    /\ lib.opened = 2
    /\ nev = 2

\* C13: a read that signals the end of the file ends the current source
\* normally and the run goes on with the next source; a read with any other
\* non-success status is fatal (the read error); either way the failing read
\* adds nothing to the statistics. Opening a source, querying its version and
\* leaving it change no accumulator either, so an empty source leaves total
\* count, physics count, cumulative length, min/max lengths and the last
\* sequence number as they were.
C13_FailingReadNoEffect ==
    /\ [][ (pc = "read" /\ ret' # S_SUCCESS) =>
             /\ pc' = "eof"
             /\ stats' = stats
             /\ gEvNum' = gEvNum
             /\ out' = out ]_vars
    /\ [][ (pc = "eof" /\ ret = EOF) =>
             /\ pc' = "open"
             /\ fi' = fi + 1
             /\ retcode' = 0
             /\ exc' = ""
             /\ handle \notin openHandles' ]_vars
    /\ [][ (pc = "eof" /\ ret # EOF) =>
             /\ pc' = "catch"
             /\ exc' = "evPerror"
             /\ fi' = fi ]_vars
    /\ [][ (pc = "open" \/ pc = "ioctl" \/ pc = "eof") =>
             /\ stats' = stats
             /\ gEvNum' = gEvNum ]_vars
    /\ [](pc = "eof" => ret # S_SUCCESS)

\* the second source was empty, the first one had two records
C13_Witness ==
    /\ pc = "open"
    /\ fi = 3
    /\ lib.opened = 2
    /\ rpos = 0
    /\ ret = EOF
    /\ nev = 2
    /\ nphys = 1

\* C14: the length is word 0 + 1 in 32-bit unsigned arithmetic, and a record
\* passes the length check (and is folded into the statistics) only if its
\* mathematical length word 0 + 1 lies in 1..102400, for every value of
\* word 0 including 2^32 - 1; no accepted record contributes a length of 0
\* to the cumulative total or to the minimum physics length.
C14_CapacityGuard ==
    /\ (pc = "classify" \/ pc = "account") =>
          /\ evlen = EvLen(evbuffer)
          /\ WithinCapacity
          /\ evlen = MathLen(evbuffer.w0)
          /\ evlen # Lit(0)
    /\ nphys > 0 => min_evlen # Lit(0)

\* C15: evClose is only called on a handle that is open at that moment, and
\* at most once for every source that was opened.
C15_CloseOnlyOpen ==
    /\ lib.badCloses = 0
    /\ lib.closes <= lib.opened

\* C16: at every loop boundary, after any records of any sources: physics
\* count <= total count; all-record max length <= 102400; cumulative length
\* <= total count * 102400; if physics count > 0 then 1 <= min physics length
\* <= max physics length <= all-record max length; and no step lowers a
\* count, the cumulative length or a maximum, or raises the minimum.
C16_LoopInvariants ==
    /\ [](pc = "read" =>
            /\ nphys <= nev
            /\ ~ULess(Lit(MAXEVLEN), max_evlen_any)
            /\ ~ULess(Lit(nev * MAXEVLEN), totlen)
            /\ nphys > 0 =>
                 /\ ULess(Lit(0), min_evlen)
                 /\ ~ULess(max_evlen, min_evlen)
                 /\ ~ULess(max_evlen_any, max_evlen))
    /\ [][ /\ nev' >= nev
           /\ nphys' >= nphys
           /\ ~ULess(totlen', totlen)
           /\ ~ULess(max_evlen', max_evlen)
           /\ ~ULess(max_evlen_any', max_evlen_any)
           /\ ~ULess(min_evlen, min_evlen') ]_vars

\* C17: in every report the bytes printed for min physics, max physics and
\* all-record max length are exactly 4 times the word lengths, without
\* 32-bit wrap-around, and min physics <= max physics, also when no physics
\* record was seen.
C17_ReportedExtremes ==
    out.report # << >> =>
       /\ out.report[1].min_physics = Mul4_64(min_evlen)
       /\ out.report[1].max_physics = Mul4_64(max_evlen)
       /\ out.report[1].max_any = Mul4_64(max_evlen_any)
       /\ ~ULess(out.report[1].max_physics, out.report[1].min_physics)

====
